---- MODULE Spec2Model ----
(***************************************************************************)
(* The search-and-extract pipeline of simple_webagent/websearch/           *)
(* web_search.py: search_web (plain-text digest) and search_web_structured *)
(* (structured report).  One invocation is a process; its steps are the    *)
(* code between two awaits: the prologue, limiter.hit, one client.post per *)
(* key, one client.get per result URL, and the assembly after gather.      *)
(***************************************************************************)
EXTENDS Integers, Sequences, FiniteSets, TLC

\* ---------------------------------------------------------------- bounds
\* The longest hit list the provider answers with.
MaxHits == 2
\* The longest hit list of the digest runs, whose hits all carry a link.
MaxDigestHits == 3
\* The longest document handed to _robust_extract_main_text on its own.
MaxLen == 3

\* ------------------------------------------------------ program constants
\* rate_limit = parse("360/hour")
RATE_LIMIT_AMOUNT == 360
\* num_results defaults to 4 when it is None (or falsy, in the structured variant)
DEFAULT_NUM_RESULTS == 4
\* max(1, min(20, num_results))
MIN_NUM_RESULTS == 1
MAX_NUM_RESULTS == 20

SERPER_SEARCH_ENDPOINT == "https://google.serper.dev/search"
SERPER_NEWS_ENDPOINT == "https://google.serper.dev/news"

\* a fallback list that also retries a client-side error
fallback_statuses_with_404 == {400, 401, 403, 429, 402, 500, 502, 503, 504, 404}

\* fallback_statuses of both functions
fallback_statuses == {400, 401, 403, 429, 402, 500, 502, 503, 504}

\* ------------------------------------------------------------ value sets
Procs == {1, 2}
Variants == {"search_web", "search_web_structured"}
SearchTypes == {"search", "news", "images"}

\* Optional[int]: None is the empty sequence, the integer n is <<n>>.
None == <<>>
Some(n) == <<n>>
NumResultsInputs == {None, Some(0), Some(3), Some(35)}

\* Key strings; "" is a missing (falsy) key, as None is.
ApiKeyInputs == {"", "kA"}
FallbackKeyInputs == {"", "kA", "kB"}
EnvPrimaryValues == {"", "kA"}
EnvFallbackValues == {"", "kB"}

\* Statuses the provider answers with: 200, the fallback list, and two
\* statuses outside it.
ProviderStatuses == {200, 404, 422} \cup fallback_statuses
\* str(ex) of a transport exception raised by client.post
ExceptionMessages == {"ConnectError", "ReadTimeout"}

Min(a, b) == IF a < b THEN a ELSE b
Max(a, b) == IF a > b THEN a ELSE b

\* ------------------------------------------------------------------ text
\* A string is a sequence of tokens: a markup tag, a word, or whitespace.
Tags == {"<html>", "<p>", "</p>"}
Blank == " "
Newline == "\n"
Whitespace == {Blank, Newline}
Word == "w"

\* a value that is not a str (None)
NotAString == <<"None">>

\* str.strip() == "" (or the string is empty)
IsBlank(s) == \A i \in 1..Len(s) : s[i] \in Whitespace

RECURSIVE LStrip(_)
LStrip(s) == IF s # <<>> /\ Head(s) \in Whitespace THEN LStrip(Tail(s)) ELSE s

RECURSIVE RStrip(_)
RStrip(s) ==
    IF s # <<>> /\ s[Len(s)] \in Whitespace THEN RStrip(SubSeq(s, 1, Len(s) - 1)) ELSE s

\* str.strip()
Strip(s) == LStrip(RStrip(s))

\* re.sub(r"<[^>]+>", " ", html)
ReplaceTags(s) == [i \in 1..Len(s) |-> IF s[i] \in Tags THEN Blank ELSE s[i]]

\* re.sub(r"\s+", " ", text): every run of whitespace becomes one blank
RECURSIVE CollapseWhitespace(_)
CollapseWhitespace(s) ==
    IF s = <<>> THEN <<>>
    ELSE IF Head(s) \notin Whitespace THEN <<Head(s)>> \o CollapseWhitespace(Tail(s))
    ELSE IF Len(s) >= 2 /\ s[2] \in Whitespace THEN CollapseWhitespace(Tail(s))
    ELSE <<Blank>> \o CollapseWhitespace(Tail(s))

\* the naive fallback: strip the tags, collapse whitespace, strip
NaiveText(s) == Strip(CollapseWhitespace(ReplaceTags(s)))

\* what trafilatura.extract does with a document: it raises, answers None,
\* or answers a text
TrafilaturaRaises == [kind |-> "raise", text |-> <<>>]
TrafilaturaNone == [kind |-> "None", text |-> <<>>]
TrafilaturaAnswers(t) == [kind |-> "text", text |-> t]

\* text = trafilatura.extract(...) or "", and "" when it raises
TrafilaturaText(outcome) == IF outcome.kind = "text" THEN outcome.text ELSE <<>>

\* an extraction without the naive fallback
robust_extract_without_fallback(html, readable) ==
    IF html = NotAString \/ IsBlank(html) THEN <<>>
    ELSE IF ~IsBlank(readable) THEN Strip(readable)
    ELSE <<>>

\* _robust_extract_main_text(html, url); readable is what trafilatura.extract
\* answers for this page ("" when it finds nothing or raises).
robust_extract_main_text(html, readable) ==
    IF html = NotAString \/ IsBlank(html) THEN <<>>
    ELSE IF ~IsBlank(readable) THEN Strip(readable)
    ELSE NaiveText(html)

\* "<html" in response.text[:1000].lower()
HasHtmlMarker(s) == \E i \in 1..Len(s) : s[i] = "<html>"

\* "text/html" in content_type
IsHtmlContentType(ct) == ct \in {"text/html", "text/html; charset=utf-8"}

\* ------------------------------------------------------------ provider hits
NoLink == [host |-> <<>>, path |-> 0]
Url(i) ==
    [host |-> IF i % 2 = 1 THEN <<"www", "example", "com">> ELSE <<"news", "www", "org">>,
     path |-> i]

\* meta.get("date", "") of a hit without a date
NoDate == ""
\* The raw dates the provider gives a news hit: none, two spellings of one
\* day, and a text dateutil cannot read.
RawDates == {NoDate, "Jan 5, 2024", "2024-01-05T10:00:00Z", "date unknown to the parser"}

\* dateparser.parse(date_str, fuzzy=True) returns a datetime for these
Parseable(date_str) == date_str \in {"Jan 5, 2024", "2024-01-05T10:00:00Z"}

\* dateparser.parse(date_str, fuzzy=True).strftime("%Y-%m-%d")
ParseIso(date_str) ==
    CASE date_str = "Jan 5, 2024" -> "2024-01-05"
      [] date_str = "2024-01-05T10:00:00Z" -> "2024-01-05"

\* date_iso of search_web: "Unknown" for no date and when the parser raises
DateIso(date_str) ==
    IF date_str = NoDate THEN "Unknown"
    ELSE IF Parseable(date_str) THEN ParseIso(date_str)
    ELSE "Unknown"

\* Hit i of a provider answer: its title names its position; the link may be absent.
Hit(i, linked) ==
    [title |-> i, link |-> IF linked THEN Url(i) ELSE NoLink, date |-> NoDate]

\* a news hit with a link and the raw date the provider gives it
NewsHit(i, date) == [Hit(i, TRUE) EXCEPT !.date = date]

\* str.replace("www.", ""): every label "www" that a dot follows is dropped
RECURSIVE ReplaceWww(_)
ReplaceWww(host) ==
    IF Len(host) < 2 THEN host
    ELSE IF Head(host) = "www" THEN ReplaceWww(Tail(host))
    ELSE <<Head(host)>> \o ReplaceWww(Tail(host))

\* link.split("/")[2].replace("www.", "")
DomainOf(link) == ReplaceWww(link.host)

HitLists ==
    UNION {{[i \in 1..n |-> Hit(i, f[i])] : f \in [1..n -> BOOLEAN]} : n \in 0..MaxHits}

HasLink(hit) == hit.link # NoLink

\* ------------------------------------------------------------ page fetches
\* The pages a GET answers with: status, Content-Type, body and what the
\* readability extraction finds in the body.
Pages ==
    { [status_code |-> 200, content_type |-> "text/html; charset=utf-8",
       text |-> <<"<html>", "<p>", Word, "</p>">>, readable |-> <<Word>>],
      [status_code |-> 403, content_type |-> "text/html",
       text |-> <<"<html>", "<p>", Blank, "</p>">>, readable |-> <<>>],
      [status_code |-> 200, content_type |-> "",
       text |-> <<"<html>", Word>>, readable |-> <<>>],
      [status_code |-> 200, content_type |-> "application/json",
       text |-> <<Word, Blank, Blank, Word>>, readable |-> <<>>] }

Pending(u) ==
    [kind |-> "pending", url |-> u, status_code |-> 0, content_type |-> "",
     text |-> <<>>, readable |-> <<>>]

FetchException(u) ==
    [kind |-> "exception", url |-> u, status_code |-> 0, content_type |-> "",
     text |-> <<>>, readable |-> <<>>]

FetchResponse(u, pg) ==
    [kind |-> "response", url |-> u, status_code |-> pg.status_code,
     content_type |-> pg.content_type, text |-> pg.text, readable |-> pg.readable]

\* What asyncio.gather(..., return_exceptions=True) holds for one client.get(u)
FetchOutcomes(u) == {FetchException(u)} \cup {FetchResponse(u, pg) : pg \in Pages}

\* ------------------------------------------------------------------ state
VARIABLES
    config,     \* the module constants SERPER_API_KEY and SERPER_API_KEY_FALLBACK
    storage,    \* limiter: identifier -> number of entries inside its moving window
    index,      \* provider: the hit lists it may answer a search with
    call,       \* one invocation per process: its arguments, locals and position
    extraction, \* one call of _robust_extract_main_text on a document of its own
    cli,        \* one run of the command "simple-webagent search"
    environ,    \* os.environ as the import of web_search.py reads it
    agent       \* the calls of search_and_answer / search_and_answer_sync

vars == <<config, storage, index, call, extraction, cli, environ, agent>>

\* The identifiers limiter.hit may be called with.
LimiterIdentifiers == {"global"} \cup Variants

NoResponse ==
    [kind |-> "none", key |-> "", status_code |-> 0, message |-> "",
     json_ok |-> FALSE, list_key |-> "", items |-> <<>>]

\* a return value without a summary line
NoSummary == [template |-> "", a |-> 0, b |-> 0, search_type |-> ""]

NoReturn ==
    [kind |-> "none", status_code |-> 0, details |-> "",
     results |-> <<>>, chunks |-> <<>>, successful_extractions |-> 0, total |-> 0,
     error |-> "",              \* the "error" key of the report ("" when it has none)
     summary |-> NoSummary,     \* the summary line, or the whole message of a failure
     text |-> <<>>]             \* the parts of the digest search_web returns

NoRequest ==
    [variant |-> "search_web", search_type |-> "search", num_results |-> None,
     api_key |-> "", fallback_api_key |-> "", use_fallback |-> FALSE]

\* The arguments of one invocation.
Requests ==
    [variant : Variants, search_type : SearchTypes, num_results : NumResultsInputs,
     api_key : ApiKeyInputs, fallback_api_key : FallbackKeyInputs,
     use_fallback : BOOLEAN]

\* The locals of an invocation at its first line.
NewCall(req, pc) ==
    [pc |-> pc, req |-> req,
     keys_in_order |-> <<>>, num_results |-> req.num_results,
     search_type |-> req.search_type,
     slots |-> 0,                 \* successful limiter.hit calls of this invocation
     idx |-> 0, r |-> NoResponse, resp |-> NoResponse, last_error |-> "",
     posts |-> <<>>,              \* the client.post calls made, in order
     results |-> <<>>, urls |-> <<>>, responses |-> <<>>,
     recorded |-> <<>>,           \* the record_request calls made, in order
     ret |-> NoReturn]

\* ------------------------------------------------------ credential chain
\* a key chain built without the duplicate check
KeysInOrderNoDedup(req, cfg) ==
    LET primary ==
            IF req.api_key # "" THEN <<req.api_key>>
            ELSE IF cfg.SERPER_API_KEY # "" THEN <<cfg.SERPER_API_KEY>>
            ELSE <<>>
        fb_key ==
            IF req.fallback_api_key # "" THEN req.fallback_api_key
            ELSE cfg.SERPER_API_KEY_FALLBACK
    IN  IF req.use_fallback /\ fb_key # "" THEN Append(primary, fb_key) ELSE primary

\* a key chain that appends the fallback key whatever use_fallback says
KeysInOrderFallbackAlways(req, cfg) ==
    LET primary ==
            IF req.api_key # "" THEN <<req.api_key>>
            ELSE IF cfg.SERPER_API_KEY # "" THEN <<cfg.SERPER_API_KEY>>
            ELSE <<>>
        fb_key ==
            IF req.fallback_api_key # "" THEN req.fallback_api_key
            ELSE cfg.SERPER_API_KEY_FALLBACK
    IN  IF fb_key # "" /\ ~(\E i \in 1..Len(primary) : primary[i] = fb_key)
        THEN Append(primary, fb_key)
        ELSE primary

\* keys_in_order, as both functions build it
KeysInOrder(req, cfg) ==
    LET primary ==
            IF req.api_key # "" THEN <<req.api_key>>
            ELSE IF cfg.SERPER_API_KEY # "" THEN <<cfg.SERPER_API_KEY>>
            ELSE <<>>
        fb_key ==
            IF req.fallback_api_key # "" THEN req.fallback_api_key
            ELSE cfg.SERPER_API_KEY_FALLBACK
    IN  IF req.use_fallback /\ fb_key # ""
           /\ ~(\E i \in 1..Len(primary) : primary[i] = fb_key)
        THEN Append(primary, fb_key)
        ELSE primary

\* ------------------------------------------------------------ validation
\* search_web: None becomes 4, then max(1, min(20, num_results))
ClampText(num_results) ==
    LET n == IF num_results = None THEN DEFAULT_NUM_RESULTS ELSE num_results[1]
    IN  Max(MIN_NUM_RESULTS, Min(MAX_NUM_RESULTS, n))

\* search_web_structured: max(1, min(20, num_results or 4)); 0 is falsy
ClampStructured(num_results) ==
    LET n == IF num_results = None \/ num_results = Some(0)
             THEN DEFAULT_NUM_RESULTS ELSE num_results[1]
    IN  Max(MIN_NUM_RESULTS, Min(MAX_NUM_RESULTS, n))

\* a validation that sends an unknown search_type to the news mode
NormalizeSearchTypeToNews(search_type) ==
    IF search_type \notin {"search", "news"} THEN "news" ELSE search_type

\* if search_type not in ["search", "news"]: search_type = "search"
NormalizeSearchType(search_type) ==
    IF search_type \notin {"search", "news"} THEN "search" ELSE search_type

Endpoint(search_type) ==
    IF search_type = "news" THEN SERPER_NEWS_ENDPOINT ELSE SERPER_SEARCH_ENDPOINT

\* payload: num, and the news discriminator type/page
Payload(search_type, num) ==
    [num |-> num, news_type |-> (search_type = "news")]

\* the key of the provider's answer holding the hits this invocation reads
ResultKey(search_type) == IF search_type = "news" THEN "news" ELSE "organic"

\* The provider answers /news with a "news" list and /search with "organic".
ProviderListKey(endpoint) == IF endpoint = SERPER_NEWS_ENDPOINT THEN "news" ELSE "organic"

\* ------------------------------------------------------------- analytics
\* await record_request(duration, num_results)
record_request(c, num_results) == [c EXCEPT !.recorded = Append(@, num_results)]

\* The "error" key of the dict search_web_structured returns; the str that
\* search_web returns has no such key, and neither has the final report.
ErrorField(variant, ret) ==
    IF variant = "search_web" THEN ""
    ELSE CASE ret.kind = "rate_limit_exceeded" -> "rate_limit_exceeded"
           [] ret.kind = "request_failed" -> "request_failed"
           [] ret.kind = "api_status" -> "api_status_{status_code}"
           [] ret.kind = "no_results" -> "no_results"
           [] ret.kind = "exception" -> "exception"
           [] OTHER -> ""

\* The f-string of the summary (structured) or of the message (plain text),
\* with the values it interpolates.
SummaryLine(variant, search_type, ret) ==
    LET line(t, a, b) == [template |-> t, a |-> a, b |-> b, search_type |-> search_type]
    IN  IF variant = "search_web"
        THEN CASE ret.kind = "config_error" ->
                      line("Error: No SERPER API key configured.", 0, 0)
               [] ret.kind = "rate_limit_exceeded" ->
                      line("Error: Rate limit exceeded.", 0, 0)
               [] ret.kind = "request_failed" ->
                      line("Error: Search request failed. Details: {last_error}.", 0, 0)
               [] ret.kind = "api_status" ->
                      line("Error: Search API returned status {a}.", ret.status_code, 0)
               [] ret.kind = "no_results" ->
                      line("No {search_type} results found for query", 0, 0)
               [] ret.kind = "no_content" ->
                      line("Found {b} {search_type} results, but couldn't extract readable content",
                           0, ret.total)
               [] ret.kind = "ok" ->
                      line("Successfully extracted content from {a} out of {b} {search_type} results",
                           ret.successful_extractions, ret.total)
               [] OTHER -> line("Error occurred while searching: {e}.", 0, 0)
        ELSE CASE ret.kind = "rate_limit_exceeded" -> line("Rate limit exceeded", 0, 0)
               [] ret.kind = "request_failed" -> line("Request error: {last_error}", 0, 0)
               [] ret.kind = "api_status" ->
                      line("Search API status {a}", ret.status_code, 0)
               [] ret.kind = "no_results" -> line("No {search_type} results for", 0, 0)
               [] ret.kind = "report" ->
                      line("Fetched {b} results; successfully extracted content from {a}",
                           ret.successful_extractions, ret.total)
               [] OTHER -> line("Error: {e}", 0, 0)

\* return ...: the invocation ends with this value
Return(c, ret) ==
    [c EXCEPT !.pc = "done",
              !.ret = [ret EXCEPT !.error = ErrorField(c.req.variant, ret),
                                  !.summary = SummaryLine(c.req.variant, c.search_type, ret)]]

\* -------------------------------------------------------------- assembly
Ret(kind) == [NoReturn EXCEPT !.kind = kind]

\* resp.json().get(key, [])
JsonGet(resp, key) == IF resp.list_key = key THEN resp.items ELSE <<>>

\* zip(a, b) stops at the shorter of the two
ZipLen(a, b) == Min(Len(a), Len(b))

\* search_web: the body extracted from one response; <<>> is None or ""
TextBody(response) ==
    IF IsHtmlContentType(response.content_type) \/ HasHtmlMarker(response.text)
    THEN robust_extract_main_text(response.text, response.readable)
    ELSE <<>>

\* the metadata line of a block: "**Domain:** ..." or "**Source:** ... **Date:** ..."
DomainLine(domain) == [kind |-> "domain", domain |-> domain, date |-> ""]
SourceDateLine(date_iso) == [kind |-> "source_date", domain |-> <<>>, date |-> date_iso]

\* one formatted block: heading, metadata line, URL line, text
Block(title, meta_line, url, body) ==
    [title |-> title, meta_line |-> meta_line, url |-> url, body |-> body]

\* search_web: the chunks of the pairs of zip(results, responses) from pair i on
RECURSIVE Chunks(_, _, _, _)
Chunks(results, responses, search_type, i) ==
    IF i > ZipLen(results, responses) THEN <<>>
    ELSE LET rest == Chunks(results, responses, search_type, i + 1)
             body == TextBody(responses[i])
         IN  IF responses[i].kind = "exception" \/ body = <<>> THEN rest
             ELSE <<Block(results[i].title,
                          IF search_type = "news"
                          THEN SourceDateLine(DateIso(results[i].date))
                          ELSE DomainLine(DomainOf(results[i].link)),
                          results[i].link, Strip(body))>> \o rest

\* The parts of the str search_web returns: the summary sentence, the rule
\* "\n\n---\n\n" that ends the summary, a chunk, the divider "\n---\n".
SummaryPart(k, n) == [part |-> "summary", chunk |-> 0, k |-> k, n |-> n]
RulePart == [part |-> "rule", chunk |-> 0, k |-> 0, n |-> 0]
DividerPart == [part |-> "divider", chunk |-> 0, k |-> 0, n |-> 0]
ChunkPart(i) == [part |-> "chunk", chunk |-> i, k |-> 0, n |-> 0]

\* a join that ends every chunk with the divider
RECURSIVE JoinTerminated(_, _)
JoinTerminated(chunks, i) ==
    IF i > Len(chunks) THEN <<>>
    ELSE <<ChunkPart(i), DividerPart>> \o JoinTerminated(chunks, i + 1)

\* "\n---\n".join(chunks), from chunk i on
RECURSIVE Join(_, _)
Join(chunks, i) ==
    IF i > Len(chunks) THEN <<>>
    ELSE IF i = Len(chunks) THEN <<ChunkPart(i)>>
    ELSE <<ChunkPart(i), DividerPart>> \o Join(chunks, i + 1)

\* search_web, after gather: the digest or the nothing-extracted message
AssembleText(c) ==
    LET chunks == Chunks(c.results, c.responses, c.search_type, 1)
        successful_extractions == Len(chunks)
    IN  IF chunks = <<>>
        THEN Return(record_request(c, c.num_results),
                    [Ret("no_content") EXCEPT !.total = Len(c.results)])
        ELSE Return(record_request(c, c.num_results),
                    [Ret("ok") EXCEPT !.chunks = chunks,
                                      !.successful_extractions = successful_extractions,
                                      !.total = Len(c.results),
                                      !.text = <<SummaryPart(successful_extractions,
                                                             Len(c.results)), RulePart>>
                                               \o Join(chunks, 1)])

\* search_web_structured: cleaned text of one response
CleanedText(response) ==
    LET cleaned ==
            IF IsHtmlContentType(response.content_type) \/ HasHtmlMarker(response.text)
            THEN robust_extract_main_text(response.text, response.readable)
            ELSE <<>>
    IN  Strip(IF IsBlank(cleaned) THEN NaiveText(response.text) ELSE cleaned)

\* search_web_structured: the item built from one pair of zip(serper_items, responses)
Item(meta, response, search_type) ==
    [title |-> meta.title, url |-> meta.link,
     domain |-> IF response.kind # "exception" /\ HasLink(meta)
                THEN DomainOf(meta.link) ELSE <<>>,
     date |-> IF search_type = "news" THEN meta.date ELSE "",
     status_code |-> response.status_code,
     error |-> (response.kind = "exception"),
     cleaned_text |-> IF response.kind = "exception" THEN <<>> ELSE CleanedText(response),
     response |-> response]

\* results_out
ResultsOut(serper_items, responses, search_type) ==
    [i \in 1..ZipLen(serper_items, responses) |->
        Item(serper_items[i], responses[i], search_type)]

\* serper_blocks: one block per item whose fetch gave a response
RECURSIVE SerperBlocks(_, _)
SerperBlocks(items, i) ==
    IF i > Len(items) THEN <<>>
    ELSE LET rest == SerperBlocks(items, i + 1)
         IN  IF items[i].error THEN rest
             ELSE <<Block(items[i].title, DomainLine(items[i].domain), items[i].url,
                          items[i].cleaned_text)>> \o rest

\* search_web_structured, after gather: the report
AssembleStructured(c) ==
    LET results_out == ResultsOut(c.results, c.responses, c.search_type)
        successful ==
            Cardinality({i \in 1..Len(results_out) : results_out[i].cleaned_text # <<>>})
    IN  Return(record_request(c, c.num_results),
               [Ret("report") EXCEPT !.results = results_out,
                                     !.chunks = SerperBlocks(results_out, 1),
                                     !.successful_extractions = successful,
                                     !.total = Len(results_out)])

\* ---------------------------------------------------------- provider call
\* urls of search_web: [r["link"] for r in results]
\* urls of search_web_structured: [it.get("link") for it in serper_items if it.get("link")]
RECURSIVE Links(_)
Links(hits) ==
    IF hits = <<>> THEN <<>>
    ELSE IF HasLink(Head(hits)) THEN <<Head(hits).link>> \o Links(Tail(hits))
    ELSE Links(Tail(hits))

\* tasks = [client.get(u) for u in urls]: every GET is launched
LaunchFetches(c, urls) ==
    [c EXCEPT !.pc = "fetch", !.urls = urls,
              !.responses = [j \in 1..Len(urls) |-> Pending(urls[j])]]

\* the except handler of the whole pipeline: no record_request is awaited
except_handler(c) == Return(c, Ret("exception"))

\* a provider error that names no status
ProviderErrorWithoutStatus(c) == Return(record_request(c, c.num_results), Ret("api_status"))

\* if resp.status_code != 200: record_request, return the status error
ProviderError(c) ==
    Return(record_request(c, c.num_results),
           [Ret("api_status") EXCEPT !.status_code = c.resp.status_code])

\* a zero-results return that skips the analytics call
NoResultsUnrecorded(c) == Return(c, Ret("no_results"))

\* if not results: record_request, return the no-results message or report
NoResults(c) == Return(record_request(c, c.num_results), Ret("no_results"))

\* the code after the key loop, up to the launch of the page fetches
AfterLoop(c) ==
    IF c.resp.kind = "none"
    THEN Return(record_request(c, c.num_results),
                [Ret("request_failed") EXCEPT
                    !.details = IF c.last_error # "" THEN c.last_error ELSE "unknown error"])
    ELSE IF c.resp.status_code # 200
    THEN ProviderError(c)
    ELSE IF ~c.resp.json_ok THEN except_handler(c)
    ELSE LET results == JsonGet(c.resp, ResultKey(c.search_type))
             d == [c EXCEPT !.results = results]
         IN  IF results = <<>>
             THEN NoResults(d)
             ELSE IF c.req.variant = "search_web"
             THEN IF \E i \in 1..Len(results) : ~HasLink(results[i])
                  THEN except_handler(d)           \* r["link"] raises KeyError
                  ELSE LaunchFetches(d, Links(results))
             ELSE LaunchFetches(d, Links(results))

\* what client.post answers for the key in turn
ProviderOutcomes(key, endpoint, hit_lists) ==
    {[NoResponse EXCEPT !.kind = "exception", !.key = key, !.message = m] :
        m \in ExceptionMessages}
    \cup {[NoResponse EXCEPT !.kind = "response", !.key = key, !.status_code = s] :
        s \in ProviderStatuses \ {200}}
    \cup {[NoResponse EXCEPT !.kind = "response", !.key = key, !.status_code = 200]}
    \cup {[NoResponse EXCEPT !.kind = "response", !.key = key, !.status_code = 200,
                            !.json_ok = TRUE, !.list_key = ProviderListKey(endpoint),
                            !.items = h] : h \in hit_lists}

\* a key loop in which a transport exception ends the call at once
KeyLoopBodyExceptionEnds(c, r) ==
    LET stop == ~c.req.use_fallback \/ c.idx = Len(c.keys_in_order)
        d == [c EXCEPT !.r = r]
    IN  IF r.kind = "response"
        THEN IF r.status_code = 200 \/ stop \/ r.status_code \notin fallback_statuses
             THEN AfterLoop([d EXCEPT !.resp = r])
             ELSE [d EXCEPT !.idx = @ + 1]
        ELSE AfterLoop([d EXCEPT !.last_error = r.message, !.resp = NoResponse])

\* a key loop that tries the same key again after a fallback status
KeyLoopBodySameKeyAgain(c, r) ==
    LET stop == ~c.req.use_fallback \/ c.idx = Len(c.keys_in_order)
        d == [c EXCEPT !.r = r]
    IN  IF r.kind = "response"
        THEN IF r.status_code = 200 \/ stop \/ r.status_code \notin fallback_statuses
             THEN AfterLoop([d EXCEPT !.resp = r])
             ELSE d
        ELSE IF stop
             THEN AfterLoop([d EXCEPT !.last_error = r.message, !.resp = NoResponse])
             ELSE [d EXCEPT !.last_error = r.message, !.idx = @ + 1]

\* the body of the key loop for the outcome r of the POST with key idx
KeyLoopBody(c, r) ==
    LET stop == ~c.req.use_fallback \/ c.idx = Len(c.keys_in_order)
        d == [c EXCEPT !.r = r]       \* the outcome of the latest POST
    IN  IF r.kind = "response"
        THEN IF r.status_code = 200 \/ stop \/ r.status_code \notin fallback_statuses
             THEN AfterLoop([d EXCEPT !.resp = r])
             ELSE [d EXCEPT !.idx = @ + 1]
        ELSE IF stop
             THEN AfterLoop([d EXCEPT !.last_error = r.message, !.resp = NoResponse])
             ELSE [d EXCEPT !.last_error = r.message, !.idx = @ + 1]

\* client.post(endpoint, headers=_build_serper_headers(key), json=payload)
Posted(c) ==
    [c EXCEPT !.posts = Append(@, [key |-> c.keys_in_order[c.idx],
                                   endpoint |-> Endpoint(c.search_type),
                                   payload |-> Payload(c.search_type, c.num_results[1])])]

\* ------------------------------------------------------------- prologue
\* search_web up to the rate-limit check: the key chain, the configuration
\* error, the clamp of num_results and the validation of search_type
PrologueText(c, cfg) ==
    LET keys == KeysInOrder(c.req, cfg)
    IN  IF keys = <<>>
        THEN Return(record_request(c, c.req.num_results), Ret("config_error"))
        ELSE [c EXCEPT !.pc = "gate", !.keys_in_order = keys,
                       !.num_results = Some(ClampText(c.req.num_results)),
                       !.search_type = NormalizeSearchType(c.req.search_type)]

\* search_web_structured up to the rate-limit check: fetch_num, the validation
\* of search_type and the key chain (an empty chain is not checked)
PrologueStructured(c, cfg) ==
    [c EXCEPT !.pc = "gate", !.keys_in_order = KeysInOrder(c.req, cfg),
              !.num_results = Some(ClampStructured(c.req.num_results)),
              !.search_type = NormalizeSearchType(c.req.search_type)]

\* ---------------------------------------------------------------- limiter
\* a limiter identifier of its own for each function
LimiterKeyPerFunction(variant) == variant

\* the identifier both functions pass to limiter.hit
LimiterKey(variant) == "global"

\* MovingWindowRateLimiter.hit: an entry is acquired while the window of the
\* identifier holds fewer than the limit's amount
WindowHasRoom(st, key) == st[key] < RATE_LIMIT_AMOUNT

\* a refusal that is logged and then ignored
RateLimitedProceeds(c) == [c EXCEPT !.pc = "post", !.idx = 1]

\* the branch taken when limiter.hit answers False
RateLimited(c) == Return(record_request(c, c.num_results), Ret("rate_limit_exceeded"))

\* the code after a granted limiter.hit, up to the first client.post
Granted(c) ==
    LET d == [c EXCEPT !.slots = @ + 1]
    IN  IF d.keys_in_order = <<>> THEN AfterLoop(d)
        ELSE [d EXCEPT !.pc = "post", !.idx = 1]

\* ---------------------------------------------------------------- actions
\* The invocation of process p runs up to its await of limiter.hit.
Begin(p) ==
    /\ call[p].pc = "begin"
    /\ call' = [call EXCEPT ![p] =
                    IF call[p].req.variant = "search_web"
                    THEN PrologueText(call[p], config)
                    ELSE PrologueStructured(call[p], config)]
    /\ UNCHANGED <<config, storage, index, extraction, cli, environ, agent>>

\* await limiter.hit(rate_limit, "global"): test and record in one step
LimiterHit(p) ==
    /\ call[p].pc = "gate"
    /\ LET key == LimiterKey(call[p].req.variant)
       IN  IF WindowHasRoom(storage, key)
           THEN /\ storage' = [storage EXCEPT ![key] = @ + 1]
                /\ call' = [call EXCEPT ![p] = Granted(call[p])]
           ELSE /\ storage' = storage
                /\ call' = [call EXCEPT ![p] = RateLimited(call[p])]
    /\ UNCHANGED <<config, index, extraction, cli, environ, agent>>

\* await client.post(...) with the key in turn, and the code that follows it
ProviderPost(p) ==
    /\ call[p].pc = "post"
    /\ \E r \in ProviderOutcomes(call[p].keys_in_order[call[p].idx],
                                 Endpoint(call[p].search_type), index) :
           call' = [call EXCEPT ![p] = KeyLoopBody(Posted(call[p]), r)]
    /\ UNCHANGED <<config, storage, index, extraction, cli, environ, agent>>

\* one client.get(urls[j]) of the gather ends, with a response or an exception
FetchComplete(p, j) ==
    /\ call[p].pc = "fetch"
    /\ j \in 1..Len(call[p].responses)
    /\ call[p].responses[j].kind = "pending"
    /\ \E o \in FetchOutcomes(call[p].urls[j]) :
           call' = [call EXCEPT ![p].responses[j] = o]
    /\ UNCHANGED <<config, storage, index, extraction, cli, environ, agent>>

\* a wait that returns with the first GET that ends
GatherFirstDone(c) ==
    c.responses = <<>> \/ \E j \in 1..Len(c.responses) : c.responses[j].kind # "pending"

\* gather returns once no GET is pending
GatherDone(c) == \A j \in 1..Len(c.responses) : c.responses[j].kind # "pending"

\* the code after gather: extraction, formatting, record_request, return
Assemble(p) ==
    /\ call[p].pc = "fetch"
    /\ GatherDone(call[p])
    /\ call' = [call EXCEPT ![p] =
                    IF call[p].req.variant = "search_web"
                    THEN AssembleText(call[p])
                    ELSE AssembleStructured(call[p])]
    /\ UNCHANGED <<config, storage, index, extraction, cli, environ, agent>>

\* Time passes: the oldest entry of a full window leaves it.  An expiry is
\* observable only when the window is full and an invocation has yet to call
\* limiter.hit; the other expiries change nothing an invocation reads.
Expire(key) ==
    /\ storage[key] = RATE_LIMIT_AMOUNT
    /\ \E p \in Procs : call[p].pc \in {"begin", "gate"}
    /\ storage' = [storage EXCEPT ![key] = @ - 1]
    /\ UNCHANGED <<config, index, call, extraction, cli, environ, agent>>

\* ------------------------------------------------- the extractor on its own
\* The documents _robust_extract_main_text is called with: every string of at
\* most MaxLen tokens, and a value that is not a string.
DocTokens == {"<p>", "</p>", Blank, Newline, Word}

RECURSIVE DocsOfLen(_)
DocsOfLen(n) ==
    IF n = 0 THEN {<<>>}
    ELSE {Append(d, t) : d \in DocsOfLen(n - 1), t \in DocTokens}

Documents == {NotAString} \cup UNION {DocsOfLen(n) : n \in 0..MaxLen}

TrafilaturaOutcomes ==
    {TrafilaturaRaises, TrafilaturaNone, TrafilaturaAnswers(<<>>),
     TrafilaturaAnswers(<<Blank, Newline>>), TrafilaturaAnswers(<<Word>>),
     TrafilaturaAnswers(<<Newline, Word, Blank, Word, Blank>>)}

NoExtraction == [pc |-> "idle", html |-> <<>>, outcome |-> TrafilaturaNone, result |-> <<>>]

\* _robust_extract_main_text(html, url) runs from its first line to its return
ExtractMainText ==
    /\ extraction.pc = "call"
    /\ extraction' = [extraction EXCEPT
                         !.pc = "done",
                         !.result = robust_extract_main_text(
                                        extraction.html, TrafilaturaText(extraction.outcome))]
    /\ UNCHANGED <<config, storage, index, call, cli, environ, agent>>

\* ------------------------------------------------------------------- the CLI
\* The values of --results the command line is given.
ResultsOptions == {0, 1, 3, 20, 21}

NoCommand ==
    [pc |-> "idle", news |-> FALSE, results |-> 3, verbose |-> FALSE,
     search_type |-> "", pipelex |-> "none", pipeline |-> "none", response |-> "none",
     printed |-> {}, exit_code |-> None]

\* the command ends with this exit code
Exit(c, code) == [c EXCEPT !.pc = "exit", !.exit_code = Some(code)]

\* typer checks --results against min=1, max=20 before search() is entered
CliParse ==
    /\ cli.pc = "parse"
    /\ cli' = IF cli.results < 1 \/ cli.results > 20
              THEN Exit([cli EXCEPT !.printed = @ \cup {"usage_error"}], 2)
              ELSE [cli EXCEPT !.pc = "make"]
    /\ UNCHANGED <<config, storage, index, call, extraction, environ, agent>>

\* search(): Pipelex.make() in its try, a warning when it raises; then the
\* search type and the search banner
CliPipelexMake ==
    /\ cli.pc = "make"
    /\ \E made \in BOOLEAN :
           cli' = [cli EXCEPT
                     !.pc = "search",
                     !.pipelex = IF made THEN "made" ELSE "failed",
                     !.search_type = IF cli.news THEN "news" ELSE "search",
                     !.printed = (IF made THEN @ ELSE @ \cup {"warning"}) \cup {"banner"}]
    /\ UNCHANGED <<config, storage, index, call, extraction, environ, agent>>

\* _perform_search: execute_pipeline answers, or it raises and the except
\* branch returns a mock WebSearchAgentResponse
perform_search(c, raised) ==
    [c EXCEPT !.pc = "display",
              !.pipeline = IF raised THEN "failed" ELSE "ran",
              !.response = IF raised THEN "mock" ELSE "answer"]

\* response = asyncio.run(_perform_search(query, search_type, results))
CliPerformSearch ==
    /\ cli.pc = "search"
    /\ \E raised \in BOOLEAN : cli' = perform_search(cli, raised)
    /\ UNCHANGED <<config, storage, index, call, extraction, environ, agent>>

\* _display_results(response, verbose); an exception out of it reaches the
\* except branch of search(), which prints the error and raises typer.Exit(1)
CliDisplay ==
    /\ cli.pc = "display"
    /\ \E raised \in BOOLEAN :
           cli' = IF raised
                  THEN Exit([cli EXCEPT !.printed = @ \cup {"error"}], 1)
                  ELSE LET shown == [cli EXCEPT !.printed = @ \cup {"answer_panel"}]
                       IN  IF cli.verbose THEN [shown EXCEPT !.pc = "report"]
                           ELSE Exit(shown, 0)
    /\ UNCHANGED <<config, storage, index, call, extraction, environ, agent>>

\* if verbose: the performance report, or a note that it is not available
CliReport ==
    /\ cli.pc = "report"
    /\ \E available \in BOOLEAN :
           cli' = Exit([cli EXCEPT !.printed = @ \cup
                            {IF available THEN "report" ELSE "report_not_available"}], 0)
    /\ UNCHANGED <<config, storage, index, call, extraction, environ, agent>>

\* ------------------------------------------------------ import of the module
\* os.getenv(name) of a variable that is not set
Unset == "<unset>"

EnvNames ==
    {"SERPER_API_KEY", "SERPER_API_KEY_FALLBACK", "SERPER_SECONDARY_API_KEY",
     "SERPER_API_KEY_2"}

\* os.getenv(name, default); None (no default) is falsy like ""
Getenv(env, name, default) == IF env[name] = Unset THEN default ELSE env[name]

\* a or b
Or(a, b) == IF a # "" THEN a ELSE b

\* SERPER_API_KEY and SERPER_API_KEY_FALLBACK as the module's import sets them
ImportConfig(env) ==
    [SERPER_API_KEY |-> Getenv(env, "SERPER_API_KEY", "xxxxx"),
     SERPER_API_KEY_FALLBACK |->
         Or(Getenv(env, "SERPER_API_KEY_FALLBACK", "xxxxxx"),
            Or(Getenv(env, "SERPER_SECONDARY_API_KEY", ""),
               Or(Getenv(env, "SERPER_API_KEY_2", ""), "")))]

\* an environment the import has read and turned into the constants cfg
Imported(cfg) ==
    [pc |-> "imported",
     values |-> [name \in EnvNames |->
                  CASE name = "SERPER_API_KEY" -> cfg.SERPER_API_KEY
                    [] name = "SERPER_API_KEY_FALLBACK" -> cfg.SERPER_API_KEY_FALLBACK
                    [] OTHER -> Unset]]

\* import simple_webagent.websearch.web_search: the module constants are set
\* from the environment, and the callers waiting for the module go on
ImportModule ==
    /\ environ.pc = "import"
    /\ environ' = [environ EXCEPT !.pc = "imported"]
    /\ config' = ImportConfig(environ.values)
    /\ call' = [p \in Procs |-> IF call[p].pc = "import"
                                 THEN [call[p] EXCEPT !.pc = "begin"] ELSE call[p]]
    /\ UNCHANGED <<storage, index, extraction, cli, agent>>

\* ------------------------------------------------------------------ main.py
Callers == {1, 2}
UserQueries == {"q1", "q2"}
AgentSearchTypes == {"search", "news"}
AgentNumResults == {1, 3, 10}

NoAgentCall ==
    [pc |-> "idle", user_query |-> "", search_type |-> "search", num_results |-> 3,
     input_memory |-> << >>]

\* input_memory={"user_query": user_query}
InputMemory(user_query, search_type, num_results) ==
    [k \in {"user_query"} |-> user_query]

\* search_and_answer_sync: asyncio.run(search_and_answer(user_query, search_type, num_results))
AgentSyncEntry(a) ==
    /\ agent[a].pc = "sync"
    /\ agent' = [agent EXCEPT ![a].pc = "make"]
    /\ UNCHANGED <<config, storage, index, call, extraction, cli, environ>>

\* search_and_answer: Pipelex.make()
AgentPipelexMake(a) ==
    /\ agent[a].pc = "make"
    /\ agent' = [agent EXCEPT ![a].pc = "execute"]
    /\ UNCHANGED <<config, storage, index, call, extraction, cli, environ>>

\* search_and_answer: await execute_pipeline(pipe_code, input_memory), return
AgentExecutePipeline(a) ==
    /\ agent[a].pc = "execute"
    /\ agent' = [agent EXCEPT
                    ![a].pc = "done",
                    ![a].input_memory = InputMemory(agent[a].user_query,
                                                    agent[a].search_type,
                                                    agent[a].num_results)]
    /\ UNCHANGED <<config, storage, index, call, extraction, cli, environ>>

\* ------------------------------------------------------------ specification
\* The window of "global" may already hold the entries of earlier invocations.
PriorLoads == {0, RATE_LIMIT_AMOUNT}

InitEnvironment ==
    /\ config \in [SERPER_API_KEY : EnvPrimaryValues,
                   SERPER_API_KEY_FALLBACK : EnvFallbackValues]
    /\ environ = Imported(config)
    /\ agent = [a \in Callers |-> NoAgentCall]
    /\ \E load \in PriorLoads :
           storage = [k \in LimiterIdentifiers |-> IF k = "global" THEN load ELSE 0]

\* One invocation, with any arguments.
Init ==
    /\ InitEnvironment
    /\ index = HitLists
    /\ extraction = NoExtraction
    /\ cli = NoCommand
    /\ \E req \in Requests :
           call = [p \in Procs |-> IF p = 1 THEN NewCall(req, "begin")
                                   ELSE NewCall(NoRequest, "absent")]

Next ==
    \/ \E p \in Procs : Begin(p)
    \/ \E p \in Procs : LimiterHit(p)
    \/ \E p \in Procs : ProviderPost(p)
    \/ \E p \in Procs : \E j \in 1..Max(MaxHits, MaxDigestHits) : FetchComplete(p, j)
    \/ \E p \in Procs : Assemble(p)
    \/ \E key \in LimiterIdentifiers : Expire(key)

Spec == Init /\ [][Next]_vars

\* Two invocations at once, of either function, each with its own primary key,
\* against a provider whose index holds at most one hit.
ConcurrentRequests ==
    {req \in Requests : /\ req.search_type = "search" /\ req.num_results = None
                        /\ req.api_key = "kA" /\ req.fallback_api_key = ""
                        /\ ~req.use_fallback}

InitConcurrent ==
    /\ InitEnvironment
    /\ index = {h \in HitLists : Len(h) <= 1}
    /\ extraction = NoExtraction
    /\ cli = NoCommand
    /\ call \in [Procs -> {NewCall(req, "begin") : req \in ConcurrentRequests}]

SpecConcurrent == InitConcurrent /\ [][Next]_vars

\* One invocation of search_web with its own primary key, against a provider
\* whose hits all carry a link.
DigestRequests ==
    {req \in Requests : /\ req.variant = "search_web" /\ req.num_results = None
                        /\ req.api_key = "kA" /\ req.fallback_api_key = ""
                        /\ ~req.use_fallback}

DigestHitLists == {[i \in 1..n |-> Hit(i, TRUE)] : n \in 1..MaxDigestHits}

InitDigest ==
    /\ InitEnvironment
    /\ index = DigestHitLists
    /\ extraction = NoExtraction
    /\ cli = NoCommand
    /\ \E req \in DigestRequests :
           call = [p \in Procs |-> IF p = 1 THEN NewCall(req, "begin")
                                   ELSE NewCall(NoRequest, "absent")]

SpecDigest == InitDigest /\ [][Next]_vars

\* No invocation of the pipeline: the state the other components start from.
InitIdle ==
    /\ config = [SERPER_API_KEY |-> "", SERPER_API_KEY_FALLBACK |-> ""]
    /\ storage = [k \in LimiterIdentifiers |-> 0]
    /\ index = {}
    /\ call = [p \in Procs |-> NewCall(NoRequest, "absent")]
    /\ environ = Imported(config)

\* _robust_extract_main_text called once with any document and any answer of
\* trafilatura.extract.
InitExtract ==
    /\ InitIdle
    /\ agent = [a \in Callers |-> NoAgentCall]
    /\ cli = NoCommand
    /\ \E html \in Documents, outcome \in TrafilaturaOutcomes :
           extraction = [NoExtraction EXCEPT !.pc = "call", !.html = html,
                                             !.outcome = outcome]

NextExtract == ExtractMainText

SpecExtract == InitExtract /\ [][NextExtract]_vars

\* One run of "simple-webagent search QUERY" with any options.
InitCli ==
    /\ InitIdle
    /\ agent = [a \in Callers |-> NoAgentCall]
    /\ extraction = NoExtraction
    /\ \E news \in BOOLEAN, results \in ResultsOptions, verbose \in BOOLEAN :
           cli = [NoCommand EXCEPT !.pc = "parse", !.news = news, !.results = results,
                                   !.verbose = verbose]

NextCli ==
    \/ CliParse
    \/ CliPipelexMake
    \/ CliPerformSearch
    \/ CliDisplay
    \/ CliReport

SpecCli == InitCli /\ [][NextCli]_vars

\* One invocation of either function in news mode, against a provider whose
\* hit carries any of the raw dates.
NewsRequests ==
    {req \in Requests : /\ req.search_type = "news" /\ req.num_results = None
                        /\ req.api_key = "kA" /\ req.fallback_api_key = ""
                        /\ ~req.use_fallback}

NewsHitLists == {<<>>} \cup {<<NewsHit(1, date)>> : date \in RawDates}

InitNews ==
    /\ InitEnvironment
    /\ index = NewsHitLists
    /\ extraction = NoExtraction
    /\ cli = NoCommand
    /\ \E req \in NewsRequests :
           call = [p \in Procs |-> IF p = 1 THEN NewCall(req, "begin")
                                   ELSE NewCall(NoRequest, "absent")]

SpecNews == InitNews /\ [][Next]_vars

\* The module is imported under any setting of the four environment
\* variables, then one invocation with fallback enabled and no explicit
\* fallback key runs.
EnvValues(name) ==
    CASE name = "SERPER_API_KEY" -> {Unset, "kA"}
      [] name = "SERPER_API_KEY_FALLBACK" -> {Unset, "", "kB"}
      [] name = "SERPER_SECONDARY_API_KEY" -> {Unset, "", "kS"}
      [] name = "SERPER_API_KEY_2" -> {Unset, "", "k2"}

Environments == {e \in [EnvNames -> {Unset, "", "kA", "kB", "kS", "k2"}] :
                    \A name \in EnvNames : e[name] \in EnvValues(name)}

ImportRequests ==
    {req \in Requests : /\ req.search_type = "search" /\ req.num_results = None
                        /\ req.api_key = "kA" /\ req.fallback_api_key = ""
                        /\ req.use_fallback}

InitImport ==
    /\ \E e \in Environments : environ = [pc |-> "import", values |-> e]
    /\ config = [SERPER_API_KEY |-> "", SERPER_API_KEY_FALLBACK |-> ""]
    /\ \E load \in PriorLoads :
           storage = [k \in LimiterIdentifiers |-> IF k = "global" THEN load ELSE 0]
    /\ index = {<<>>, <<Hit(1, TRUE)>>}
    /\ extraction = NoExtraction
    /\ cli = NoCommand
    /\ agent = [a \in Callers |-> NoAgentCall]
    /\ \E req \in ImportRequests :
           call = [p \in Procs |-> IF p = 1 THEN NewCall(req, "import")
                                   ELSE NewCall(NoRequest, "absent")]

NextImport == ImportModule \/ Next

SpecImport == InitImport /\ [][NextImport]_vars

\* Two calls of search_and_answer or search_and_answer_sync with any arguments.
InitAgent ==
    /\ InitIdle
    /\ extraction = NoExtraction
    /\ cli = NoCommand
    /\ agent \in [Callers ->
                    {[NoAgentCall EXCEPT !.pc = pc, !.user_query = q,
                                         !.search_type = t, !.num_results = n] :
                        pc \in {"sync", "make"}, q \in UserQueries,
                        t \in AgentSearchTypes, n \in AgentNumResults}]

NextAgent ==
    \/ \E a \in Callers : AgentSyncEntry(a)
    \/ \E a \in Callers : AgentPipelexMake(a)
    \/ \E a \in Callers : AgentExecutePipeline(a)

SpecAgent == InitAgent /\ [][NextAgent]_vars

\* ------------------------------------------------------------------ claims
Started(c) == c.pc \notin {"absent", "begin"}

\* the invocation went through the page-fetch stage and returned
Assembled(c) == c.pc = "done" /\ c.ret.kind \in {"ok", "no_content", "report"}

\* C1: in the report of search_web_structured the results have the length of
\* the provider's hit list, item i carries the title and url of hit i, and the
\* fetch outcome attached to item i is that of hit i's own URL (a hit without
\* a link carries no response at all).
C1_ResultsMatchHits ==
    \A p \in Procs :
        LET c == call[p]
        IN  (c.pc = "done" /\ c.ret.kind = "report") =>
                /\ Len(c.ret.results) = Len(c.results)
                /\ \A i \in 1..Min(Len(c.ret.results), Len(c.results)) :
                       /\ c.ret.results[i].title = c.results[i].title
                       /\ c.ret.results[i].url = c.results[i].link
                       /\ HasLink(c.results[i]) =>
                              c.ret.results[i].response.url = c.results[i].link
                       /\ ~HasLink(c.results[i]) =>
                              c.ret.results[i].response.kind # "response"

\* The status codes the claim names as retryable with the fallback key.
RetryableWithFallback == {400, 401, 402, 403, 429, 500, 502, 503, 504}

\* C2, one step of one invocation (c before, d after): with fallback enabled
\* and a key that is not the last, the next key is attempted if and only if
\* the answer was a retryable status or a transport exception; 429 on the
\* primary then 200 on the fallback gives a result built from the fallback's
\* answer; 404 or 422 on the primary ends the call with the primary's request
\* the only one made.
C2_Step(c, d) ==
    (c.pc = "post" /\ d # c /\ c.req.use_fallback /\ c.idx < Len(c.keys_in_order)) =>
        /\ (d.pc = "post" /\ d.idx = c.idx + 1)
               <=> (d.r.kind = "exception"
                    \/ (d.r.kind = "response" /\ d.r.status_code \in RetryableWithFallback))
        /\ d.r.kind = "response" /\ d.r.status_code \in {404, 422} =>
               /\ d.pc = "done" /\ d.ret.kind = "api_status"
               /\ d.ret.status_code = d.r.status_code
               /\ Len(d.posts) = c.idx
               /\ \A i \in 1..Len(d.posts) : d.posts[i].key # c.keys_in_order[c.idx + 1]

C2_FallbackAnswer(c, d) ==
    (c.pc = "post" /\ c.idx = 2 /\ c.r.status_code = 429
     /\ d # c /\ d.r.status_code = 200) =>
        /\ d.resp = d.r
        /\ d.resp.key = c.keys_in_order[2]
        /\ d.posts[2].key = c.keys_in_order[2]
        /\ d.ret.kind \notin {"api_status", "request_failed", "config_error",
                              "rate_limit_exceeded"}
        /\ d.resp.json_ok => d.results = d.resp.items

C3_AlwaysRecorded ==
    \A p \in Procs : call[p].pc = "done" => Len(call[p].recorded) >= 1

\* the invocations that passed the gate and whose entry is inside a window
WindowEntries == storage["global"] + storage["search_web"] + storage["search_web_structured"]

C5_RefusalIsTerminal ==
    /\ [](\A p \in Procs :
            call[p].ret.kind = "rate_limit_exceeded" =>
                /\ call[p].pc = "done" /\ call[p].slots = 0
                /\ call[p].posts = <<>> /\ call[p].urls = <<>>
                /\ call[p].responses = <<>>
                /\ call[p].ret.results = <<>> /\ call[p].ret.chunks = <<>>)
    /\ [][\A p \in Procs :
            (call[p].pc = "gate" /\ call'[p] # call[p]
             /\ call'[p].slots = call[p].slots) =>
                /\ call'[p].pc = "done"
                /\ call'[p].ret.kind = "rate_limit_exceeded"]_vars

\* C5 witness: each function has been refused at the gate.
C5_Witness ==
    /\ call[1].ret.kind = "rate_limit_exceeded"
    /\ call[2].ret.kind = "rate_limit_exceeded"
    /\ call[1].req.variant # call[2].req.variant

\* the primary and the fallback key an invocation resolves, in the claims' words
ResolvedPrimary(req, cfg) ==
    IF req.api_key # "" THEN req.api_key ELSE cfg.SERPER_API_KEY

ResolvedFallback(req, cfg) ==
    IF req.fallback_api_key # "" THEN req.fallback_api_key ELSE cfg.SERPER_API_KEY_FALLBACK

\* no explicit primary key, an empty environment default and no usable fallback
NoCredential(req, cfg) ==
    /\ ResolvedPrimary(req, cfg) = ""
    /\ ~req.use_fallback \/ ResolvedFallback(req, cfg) = ""

\* C6: with an empty credential chain both functions return the configuration
\* error, which names the missing credential, and make no provider request.
C6_EmptyChainIsConfigError ==
    \A p \in Procs :
        (call[p].pc = "done" /\ NoCredential(call[p].req, config)) =>
            /\ call[p].ret.kind = "config_error"
            /\ call[p].posts = <<>>

\* C7: the credential chain has at most two entries and no duplicate; when
\* the fallback key equals the primary key the chain has one entry and one
\* provider request is made, whatever status it returns.
C7_ChainDeduplicated ==
    \A p \in Procs :
        LET c == call[p]
            chain == c.keys_in_order
        IN  Started(c) =>
                /\ Len(chain) <= 2
                /\ \A i, j \in 1..Len(chain) : i # j => chain[i] # chain[j]
                /\ (/\ ResolvedPrimary(c.req, config) # ""
                    /\ ResolvedPrimary(c.req, config) = ResolvedFallback(c.req, config)) =>
                       /\ Len(chain) = 1
                       /\ Len(c.posts) <= 1
                       /\ (c.pc \in {"fetch", "done"} /\ c.slots = 1) => Len(c.posts) = 1

\* C7 witness: fallback enabled, the fallback key is the primary key, the one
\* request made returned 429 and the invocation has ended.
C7_Witness ==
    \E p \in Procs :
        /\ call[p].req.use_fallback
        /\ ResolvedPrimary(call[p].req, config) = "kA"
        /\ ResolvedFallback(call[p].req, config) = "kA"
        /\ call[p].pc = "done" /\ call[p].r.status_code = 429
        /\ Len(call[p].posts) = 1

\* C8: the count sent to the provider is max(1, min(20, result_count)) for
\* every integer result_count, in both functions.
C8_CountClamped ==
    \A p \in Procs :
        call[p].req.num_results # None =>
            \A i \in 1..Len(call[p].posts) :
                call[p].posts[i].payload.num
                    = Max(1, Min(20, call[p].req.num_results[1]))

\* C9: a search_type other than "search" and "news" is served as "search":
\* the general endpoint, no news discriminator, hits read from "organic".
C9_UnknownTypeIsSearch ==
    \A p \in Procs :
        LET c == call[p]
        IN  (Started(c) /\ c.req.search_type \notin {"search", "news"}) =>
                /\ c.search_type = "search" \/ c.ret.kind = "config_error"
                /\ \A i \in 1..Len(c.posts) :
                       /\ c.posts[i].endpoint = "https://google.serper.dev/search"
                       /\ ~c.posts[i].payload.news_type
                /\ (c.resp.kind = "response" /\ c.resp.status_code = 200
                    /\ c.resp.json_ok) =>
                       /\ c.resp.list_key = "organic"
                       /\ c.results = c.resp.items

\* C9 witness: an invocation with search_type "images" returned content.
C9_Witness ==
    \E p \in Procs :
        /\ call[p].req.search_type = "images"
        /\ call[p].pc = "done" /\ call[p].ret.kind \in {"ok", "report"}
        /\ call[p].ret.successful_extractions >= 1

\* the hits of a list that carry a URL
LinkedHits(hits) == {i \in 1..Len(hits) : HasLink(hits[i])}

\* the fetch stage of c: one GET per result URL, in order
OneGetPerUrl(c) ==
    /\ Len(c.responses) = Len(c.urls)
    /\ Len(c.urls) = Cardinality(LinkedHits(c.results))
    /\ \A i \in LinkedHits(c.results) :
           c.urls[Cardinality({k \in LinkedHits(c.results) : k <= i})] = c.results[i].link
    /\ \A j \in 1..Len(c.urls) : c.responses[j].url = c.urls[j]

\* the stage is over only when every GET has answered or failed
AllFetchesEnded(c) ==
    \A j \in 1..Len(c.responses) : c.responses[j].kind \in {"response", "exception"}

SomeFetchFailed(c) == \E j \in 1..Len(c.responses) : c.responses[j].kind = "exception"

\* some fetched page yields text for the function that fetched it
SomePageHasText(c) ==
    \E j \in 1..Len(c.responses) :
        /\ c.responses[j].kind = "response"
        /\ IF c.req.variant = "search_web" THEN TextBody(c.responses[j]) # <<>>
           ELSE CleanedText(c.responses[j]) # <<>>

\* C10 as stated: one GET per result URL, the stage ends only when all have
\* ended, and a failed fetch never makes the invocation fail.
C10_FetchFailureNeverFails ==
    \A p \in Procs :
        LET c == call[p]
        IN  /\ (c.pc = "fetch" \/ Assembled(c)) => OneGetPerUrl(c)
            /\ Assembled(c) => AllFetchesEnded(c)
            /\ (c.pc = "done" /\ SomeFetchFailed(c)) => c.ret.kind \in {"ok", "report"}

\* C10 as amended: one GET per result URL; the stage ends only when all have
\* ended; the end of one GET, failed or not, leaves the others as they were
\* and the stage open; and a failed fetch makes the invocation fail only when
\* no fetched page at all yields text (search_web's nothing-extracted answer).
C10_FetchStageJoins ==
    /\ [](\A p \in Procs :
            LET c == call[p]
            IN  /\ (c.pc = "fetch" \/ Assembled(c)) => OneGetPerUrl(c)
                /\ Assembled(c) => AllFetchesEnded(c)
                /\ (c.pc = "done" /\ SomeFetchFailed(c)) =>
                       /\ Assembled(c)
                       /\ SomePageHasText(c) =>
                              /\ c.ret.kind \in {"ok", "report"}
                              /\ c.ret.successful_extractions >= 1
                       /\ c.ret.kind = "no_content" => ~SomePageHasText(c))
    /\ [][\A p \in Procs :
            \A j \in 1..Len(call[p].responses) :
                (/\ call[p].pc = "fetch" /\ call[p].responses[j].kind = "pending"
                 /\ call'[p].responses[j].kind # "pending") =>
                    /\ call'[p].pc = "fetch"
                    /\ \A k \in 1..Len(call[p].responses) :
                           k # j => call'[p].responses[k] = call[p].responses[k]]_vars

\* C10 witness: of two GETs the first failed and the second answered a
\* readable page; the invocation returned that page's content.
C10_Witness ==
    \E p \in Procs :
        /\ call[p].pc = "done" /\ Len(call[p].responses) = 2
        /\ call[p].responses[1].kind = "exception"
        /\ call[p].responses[2].kind = "response"
        /\ call[p].ret.kind \in {"ok", "report"}
        /\ call[p].ret.successful_extractions = 1

\* a fetched page that the gate takes for something other than HTML
NonHtmlPage(response) ==
    /\ response.kind = "response"
    /\ ~IsHtmlContentType(response.content_type)
    /\ ~HasHtmlMarker(response.text)

\* C11: a fetched page with a non-HTML content type and a body that does not
\* look like HTML is not extracted: search_web's digest has no block for it,
\* and search_web_structured's item for it has an empty cleaned_text and is
\* not counted as a successful extraction.
C11_NonHtmlSkipped ==
    \A p \in Procs :
        LET c == call[p]
        IN  /\ (c.pc = "done" /\ c.ret.kind = "ok") =>
                   \A i \in 1..ZipLen(c.results, c.responses) :
                       NonHtmlPage(c.responses[i]) =>
                           \A m \in 1..Len(c.ret.chunks) :
                               c.ret.chunks[m].url # c.results[i].link
            /\ (c.pc = "done" /\ c.ret.kind = "report") =>
                   /\ \A i \in 1..Len(c.ret.results) :
                          NonHtmlPage(c.ret.results[i].response) =>
                              c.ret.results[i].cleaned_text = <<>>
                   /\ c.ret.successful_extractions
                          <= Cardinality({i \in 1..Len(c.ret.results) :
                                             ~NonHtmlPage(c.ret.results[i].response)})

\* the words of a string, in order: what is neither markup nor whitespace
WordsOf(s) == SelectSeq(s, LAMBDA t : t \notin Tags /\ t \notin Whitespace)

\* no markup, single blanks as the only whitespace, none of it at either end
IsTagFreeAndCollapsed(s) ==
    /\ \A i \in 1..Len(s) : s[i] \notin Tags /\ s[i] # Newline
    /\ \A i \in 1..(Len(s) - 1) : ~(s[i] = Blank /\ s[i + 1] = Blank)
    /\ s # <<>> => (s[1] # Blank /\ s[Len(s)] # Blank)

\* the readability extraction raised, or gave nothing but whitespace
PrimaryExtractionFailed(outcome) ==
    outcome.kind \in {"raise", "None"} \/ IsBlank(outcome.text)

\* C12: _robust_extract_main_text returns a string for every input, whatever
\* trafilatura.extract does; when the readability extraction raises or gives
\* empty or whitespace-only text for a non-blank string, the result is the
\* input without its markup tags and with whitespace collapsed; the result
\* is empty only if the input is not a string, is blank, or is made of
\* markup and whitespace alone.
C12_ExtractorTotal ==
    extraction.pc = "done" =>
        LET html == extraction.html
            result == extraction.result
        IN  /\ result # NotAString
            /\ \A i \in 1..Len(result) : result[i] \in Tags \cup Whitespace \cup {Word}
            /\ (html # NotAString /\ ~IsBlank(html)
                /\ PrimaryExtractionFailed(extraction.outcome)) =>
                   /\ WordsOf(result) = WordsOf(html)
                   /\ IsTagFreeAndCollapsed(result)
            /\ result = <<>> =>
                   \/ html = NotAString
                   \/ IsBlank(html)
                   \/ WordsOf(html) = <<>>

\* C12 witness: trafilatura.extract raised on a document of markup, words and
\* a line break, and the extractor answered the words.
C12_Witness ==
    /\ extraction.pc = "done"
    /\ extraction.outcome.kind = "raise"
    /\ extraction.html = <<"<p>", Word, Newline>>
    /\ extraction.result = <<Word>>

\* C13: an item whose cleaned text is empty contributes no block to the
\* digest of search_web, and is in the results of search_web_structured with
\* its failure recorded in its error field (every hit has a link here).
C13_EmptyTextItems ==
    \A p \in Procs :
        LET c == call[p]
        IN  (c.pc = "done" /\ \A i \in 1..Len(c.results) : HasLink(c.results[i])) =>
                /\ c.ret.kind = "ok" =>
                       \A i \in 1..Len(c.results) :
                           (c.responses[i].kind = "exception"
                            \/ TextBody(c.responses[i]) = <<>>) =>
                               \A m \in 1..Len(c.ret.chunks) :
                                   c.ret.chunks[m].url # c.results[i].link
                /\ c.ret.kind = "report" =>
                       /\ Len(c.ret.results) = Len(c.results)
                       /\ \A i \in 1..Len(c.ret.results) :
                              c.ret.results[i].cleaned_text = <<>> =>
                                  c.ret.results[i].error

\* the provider answered 200 with an empty hit list
EmptyHitList(c) ==
    /\ c.resp.kind = "response" /\ c.resp.status_code = 200
    /\ c.resp.json_ok /\ c.resp.items = <<>>

\* C14: when the provider answers 200 with an empty hit list, the invocation
\* returns no item and a non-empty summary, fetches no page, and records
\* analytics once with the clamped result count, as the other outcomes do.
C14_ZeroResults ==
    \A p \in Procs :
        LET c == call[p]
        IN  EmptyHitList(c) =>
                /\ c.pc = "done" /\ c.ret.kind = "no_results"
                /\ c.ret.results = <<>> /\ c.ret.chunks = <<>> /\ c.ret.text = <<>>
                /\ c.ret.summary.template # ""
                /\ c.urls = <<>> /\ c.responses = <<>>
                /\ c.recorded = <<c.num_results>>
                /\ c.num_results[1] \in 1..20

\* C14 witness: search_web_structured got an empty hit list from the fallback
\* key after the primary key answered 429.
C14_Witness ==
    \E p \in Procs :
        /\ call[p].req.variant = "search_web_structured"
        /\ EmptyHitList(call[p]) /\ Len(call[p].posts) = 2
        /\ call[p].ret.kind = "no_results"
        /\ call[p].recorded = <<Some(20)>>

\* a fetched page that yields text: it passes the HTML gate and holds
\* readable text or, failing that, at least one word between its tags
YieldsText(response) ==
    /\ response.kind = "response"
    /\ IsHtmlContentType(response.content_type) \/ HasHtmlMarker(response.text)
    /\ ~IsBlank(response.text)
    /\ ~IsBlank(response.readable) \/ WordsOf(response.text) # <<>>

\* the positions of the hits whose page yields text
Yielding(c) == {i \in 1..ZipLen(c.results, c.responses) : YieldsText(c.responses[i])}

\* the m-th smallest element of a set of positions
Nth(S, m) == CHOOSE i \in S : Cardinality({j \in S : j <= i}) = m

\* C15: when the provider returns N hits and k >= 1 of them yield text, the
\* text search_web returns is the summary stating "k out of N", then the k
\* blocks of the yielding hits in provider order, with the divider between
\* consecutive blocks and nowhere else: k - 1 dividers.
C15_DigestLayout ==
    \A p \in Procs :
        LET c == call[p]
            k == Cardinality(Yielding(c))
            N == Len(c.results)
        IN  (c.req.variant = "search_web" /\ c.pc = "done"
             /\ c.responses # <<>> /\ k >= 1) =>
                /\ c.ret.kind = "ok"
                /\ c.ret.summary.template
                       = "Successfully extracted content from {a} out of {b} {search_type} results"
                /\ c.ret.summary.a = k /\ c.ret.summary.b = N
                /\ Len(c.ret.chunks) = k
                /\ Len(c.ret.text) = 2 * k + 1
                /\ c.ret.text[1] = SummaryPart(k, N)
                /\ c.ret.text[2] = RulePart
                /\ \A m \in 1..k :
                       /\ c.ret.text[2 * m + 1] = ChunkPart(m)
                       /\ c.ret.chunks[m].title = c.results[Nth(Yielding(c), m)].title
                       /\ c.ret.chunks[m].url = c.results[Nth(Yielding(c), m)].link
                       /\ c.ret.chunks[m].body # <<>>
                /\ \A m \in 1..(k - 1) : c.ret.text[2 * m + 2] = DividerPart
                /\ Cardinality({m \in 1..Len(c.ret.text) : c.ret.text[m] = DividerPart}) = k - 1

\* C15 witness: three hits, three pages with text: "3 out of 3", three blocks.
C15_Witness ==
    \E p \in Procs :
        /\ call[p].pc = "done" /\ Len(call[p].results) = 3
        /\ Cardinality(Yielding(call[p])) = 3
        /\ call[p].ret.summary.a = 3 /\ call[p].ret.summary.b = 3
        /\ Len(call[p].ret.chunks) = 3

\* the return value reports a failure of the whole call: an error text from
\* search_web, an "error" field in the report of search_web_structured
CallFailed(c) ==
    IF c.req.variant = "search_web" THEN c.ret.kind # "ok" ELSE c.ret.error # ""

\* C16: after a 200 answer with at least one hit (every hit with a link), the
\* invocation reports a call-level failure if and only if no item yields
\* non-empty cleaned text.
C16_FailureIffNothingUsable ==
    \A p \in Procs :
        LET c == call[p]
        IN  (/\ c.pc = "done" /\ c.resp.kind = "response" /\ c.resp.status_code = 200
             /\ c.resp.json_ok /\ Len(c.resp.items) >= 1
             /\ \A i \in 1..Len(c.resp.items) : HasLink(c.resp.items[i])) =>
                (CallFailed(c) <=> ~SomePageHasText(c))

\* the classes of outcome the two functions share
OutcomeClass(ret) ==
    CASE ret.kind \in {"ok", "report"} /\ ret.successful_extractions >= 1 -> "content_extracted"
      [] ret.kind \in {"no_content", "report"} -> "nothing_extracted"
      [] OTHER -> ret.kind

\* two invocations got the same arguments
SameArguments(c, d) ==
    /\ c.req.search_type = d.req.search_type /\ c.req.num_results = d.req.num_results
    /\ c.req.api_key = d.req.api_key /\ c.req.fallback_api_key = d.req.fallback_api_key
    /\ c.req.use_fallback = d.req.use_fallback

\* the environment behaved the same for both: the limiter's answer, the
\* provider's answer, and the outcome of the fetch of every URL both fetched
SameEnvironment(c, d) ==
    /\ c.slots = d.slots
    /\ c.r = d.r
    /\ \A i \in 1..Len(c.urls) : \A j \in 1..Len(d.urls) :
           c.urls[i] = d.urls[j] => c.responses[i] = d.responses[j]

\* C17: with the same arguments and the same behaviour of the environment
\* (every hit of the provider's answer with a link), search_web and
\* search_web_structured make the same provider requests, fetch the same
\* pages, record the same analytics and classify the outcome alike.
C17_SameBehaviour ==
    \A p, q \in Procs :
        LET c == call[p]
            d == call[q]
        IN  (/\ c.req.variant = "search_web" /\ d.req.variant = "search_web_structured"
             /\ c.pc = "done" /\ d.pc = "done"
             /\ SameArguments(c, d) /\ SameEnvironment(c, d)
             /\ \A i \in 1..Len(c.r.items) : HasLink(c.r.items[i])) =>
                /\ c.posts = d.posts
                /\ c.urls = d.urls
                /\ c.recorded = d.recorded
                /\ OutcomeClass(c.ret) = OutcomeClass(d.ret)

\* C18: a run of the search command whose pipeline execution failed prints an
\* error and ends with a non-zero exit code.
C18_FailedPipelineExitsNonZero ==
    (cli.pc = "exit" /\ cli.pipeline = "failed") =>
        /\ cli.exit_code # Some(0)
        /\ "error" \in cli.printed

\* the chain the claim describes, from the arguments and the environment
ExpectedChain(req, cfg) ==
    LET primary == ResolvedPrimary(req, cfg)
        fallback == ResolvedFallback(req, cfg)
    IN  (IF primary # "" THEN <<primary>> ELSE <<>>)
        \o (IF req.use_fallback /\ fallback # "" /\ fallback # primary
            THEN <<fallback>> ELSE <<>>)

\* C19: the chain is the explicit primary key, else the environment's; then,
\* only with fallback enabled, the explicit fallback key, else the
\* environment's, when non-empty and different from the primary.  The keys
\* attempted are the chain's, in order; with fallback disabled no fallback key
\* is in the chain and one key is attempted, whatever it answers.
C19_ChainFromArguments ==
    \A p \in Procs :
        LET c == call[p]
        IN  Started(c) =>
                /\ c.keys_in_order = ExpectedChain(c.req, config)
                /\ Len(c.posts) <= Len(c.keys_in_order)
                /\ \A i \in 1..Len(c.posts) :
                       c.posts[i].key = ExpectedChain(c.req, config)[i]
                /\ ~c.req.use_fallback =>
                       /\ Len(c.keys_in_order) <= 1
                       /\ \A i \in 1..Len(c.keys_in_order) :
                              c.keys_in_order[i] = ResolvedPrimary(c.req, config)
                       /\ Len(c.posts) <= 1
                       /\ (c.keys_in_order # <<>> /\ c.slots = 1 /\ c.pc \in {"fetch", "done"})
                              => Len(c.posts) = 1

\* C19 witness: fallback disabled although a fallback key was passed and the
\* environment holds one; the primary key answered 429 and the call ended
\* after that one request.
C19_Witness ==
    \E p \in Procs :
        /\ ~call[p].req.use_fallback /\ call[p].req.fallback_api_key = "kB"
        /\ config.SERPER_API_KEY_FALLBACK = "kB"
        /\ call[p].pc = "done" /\ call[p].r.status_code = 429
        /\ call[p].ret.kind = "api_status"
        /\ Len(call[p].posts) = 1 /\ call[p].posts[1].key = "kA"

\* C20, the step of a POST that raised (c before, d after): the next key is
\* in turn when there is one, otherwise the call ends with the request
\* failure whose details are this exception's message.
C20_ExceptionStep(c, d) ==
    (c.pc = "post" /\ d # c /\ d.r.kind = "exception") =>
        IF c.idx < Len(c.keys_in_order)
        THEN /\ c.req.use_fallback
             /\ d.pc = "post" /\ d.idx = c.idx + 1 /\ d.ret = NoReturn
        ELSE /\ d.pc = "done" /\ d.ret.kind = "request_failed"
             /\ d.ret.details = d.r.message

\* C20, the step of a POST that answered after an earlier key raised: the
\* answer alone decides the outcome.
C20_LaterResponseStep(c, d) ==
    (c.pc = "post" /\ d # c /\ c.r.kind = "exception" /\ d.r.kind = "response") =>
        /\ d.resp = d.r
        /\ d.ret.details = ""
        /\ d.r.status_code = 200 => d.ret.kind \notin {"request_failed", "api_status"}
        /\ d.r.status_code # 200 =>
               /\ d.pc = "done" /\ d.ret.kind = "api_status"
               /\ d.ret.status_code = d.r.status_code

C21_FinalStatusIsReported ==
    \A p \in Procs :
        LET c == call[p]
        IN  /\ (c.resp.kind = "response" /\ c.resp.status_code # 200) =>
                   /\ c.pc = "done" /\ c.ret.kind = "api_status"
                   /\ c.ret.status_code = c.resp.status_code
                   /\ c.resp = c.r
                   /\ c.resp.key = c.posts[Len(c.posts)].key
                   /\ c.urls = <<>> /\ c.responses = <<>>
                   /\ c.ret.results = <<>> /\ c.ret.chunks = <<>>
            /\ c.ret.kind = "api_status" =>
                   c.resp.kind = "response" /\ c.resp.status_code # 200

\* C21 witness: the primary key answered a fallback status, the fallback key
\* answered 422, and the invocation returned the status error 422.
C21_Witness ==
    \E p \in Procs :
        /\ call[p].pc = "done" /\ Len(call[p].posts) = 2
        /\ call[p].last_error = ""
        /\ call[p].r.key = call[p].keys_in_order[2]
        /\ call[p].r.status_code = 422
        /\ call[p].ret.status_code = 422

\* the date the claim expects for a raw date of the provider
ExpectedDateIso(raw) ==
    IF raw \in {"Jan 5, 2024", "2024-01-05T10:00:00Z"} THEN "2024-01-05" ELSE "Unknown"

\* the hit a block or an item was made from, by its URL
HitOfUrl(c, url) == CHOOSE i \in 1..Len(c.results) : c.results[i].link = url

\* C22: in news mode every item carries the raw date as ISO YYYY-MM-DD, or
\* "Unknown" when the date is absent or unreadable, in the digest and in the
\* report, and every block carries the source-and-date line.
C22_NewsDates ==
    \A p \in Procs :
        LET c == call[p]
        IN  (c.pc = "done" /\ c.search_type = "news"
             /\ \A i \in 1..Len(c.results) : HasLink(c.results[i])) =>
                /\ \A m \in 1..Len(c.ret.chunks) :
                       /\ c.ret.chunks[m].meta_line.kind = "source_date"
                       /\ c.ret.chunks[m].meta_line.date
                              = ExpectedDateIso(c.results[HitOfUrl(c, c.ret.chunks[m].url)].date)
                /\ \A i \in 1..Len(c.ret.results) :
                       c.ret.results[i].date = ExpectedDateIso(c.results[i].date)

\* the host with a leading "www." removed and nothing else
LeadingWwwStripped(host) ==
    IF Len(host) >= 2 /\ host[1] = "www" THEN Tail(host) ELSE host

\* C23: the domain of every item is the host of its hit's URL with only a
\* leading "www." removed, whether or not the page fetch succeeded.
C23_DomainOfHost ==
    \A p \in Procs :
        LET c == call[p]
        IN  (c.pc = "done" /\ \A i \in 1..Len(c.results) : HasLink(c.results[i])) =>
                /\ c.ret.kind = "ok" =>
                       \A m \in 1..Len(c.ret.chunks) :
                           c.ret.chunks[m].meta_line.kind = "domain" =>
                               c.ret.chunks[m].meta_line.domain
                                   = LeadingWwwStripped(c.ret.chunks[m].url.host)
                /\ c.ret.kind = "report" =>
                       \A i \in 1..Len(c.ret.results) :
                           c.ret.results[i].domain
                               = LeadingWwwStripped(c.ret.results[i].url.host)

\* the first non-empty value among the three fallback settings, "" if none
FirstNonEmptyFallback(env) ==
    LET set(name) == env[name] # Unset /\ env[name] # ""
    IN  IF set("SERPER_API_KEY_FALLBACK") THEN env["SERPER_API_KEY_FALLBACK"]
        ELSE IF set("SERPER_SECONDARY_API_KEY") THEN env["SERPER_SECONDARY_API_KEY"]
        ELSE IF set("SERPER_API_KEY_2") THEN env["SERPER_API_KEY_2"]
        ELSE ""

\* C24: with no explicit fallback key, the fallback key is the first non-empty
\* value among SERPER_API_KEY_FALLBACK, SERPER_SECONDARY_API_KEY and
\* SERPER_API_KEY_2, and it is the key of the second request.
C24_FallbackFromEnvironment ==
    environ.pc = "imported" =>
        \A p \in Procs :
            LET c == call[p]
            IN  (Started(c) /\ c.req.fallback_api_key = "") =>
                    /\ ResolvedFallback(c.req, config) = FirstNonEmptyFallback(environ.values)
                    /\ Len(c.posts) = 2 =>
                           c.posts[2].key = FirstNonEmptyFallback(environ.values)

\* C25: search_and_answer and search_and_answer_sync hand the search_type and
\* num_results they are given to the pipeline: two calls with the same
\* user_query and different search parameters hand over different inputs.
C25_ParametersReachPipeline ==
    \A a, b \in Callers :
        (/\ agent[a].pc = "done" /\ agent[b].pc = "done"
         /\ agent[a].user_query = agent[b].user_query
         /\ \/ agent[a].search_type # agent[b].search_type
            \/ agent[a].num_results # agent[b].num_results) =>
            agent[a].input_memory # agent[b].input_memory

\* the stages of an invocation come in order: requests after the grant,
\* fetches after a 200 answer with hits
StagesInOrder(c) ==
    /\ c.posts # <<>> => c.slots = 1
    /\ (c.urls # <<>> \/ c.responses # <<>> \/ c.pc = "fetch") =>
           /\ c.slots = 1 /\ c.posts # <<>>
           /\ c.resp.kind = "response" /\ c.resp.status_code = 200
           /\ c.resp.items # <<>>
    /\ Assembled(c) => c.resp.status_code = 200 /\ c.resp.items # <<>>

\* C26 as stated: the stages come in order, and on every call-level error
\* path no page is fetched.
C26_NoFetchOnAnyErrorPath ==
    \A p \in Procs :
        LET c == call[p]
        IN  /\ StagesInOrder(c)
            /\ (c.pc = "done" /\ c.ret.kind \notin {"ok", "report"}) =>
                   c.urls = <<>> /\ c.responses = <<>>

\* C26 as amended: the stages come in order; on the error paths that end
\* before the fetch stage (configuration error, rate limit, transport failure,
\* provider status, no results) no page is fetched; the nothing-extracted
\* failure of search_web comes after the fetch stage, when every page has been
\* fetched and none yields text.
C26_StagesInOrder ==
    \A p \in Procs :
        LET c == call[p]
        IN  /\ StagesInOrder(c)
            /\ c.ret.kind \in {"config_error", "rate_limit_exceeded", "request_failed",
                               "api_status", "no_results"} =>
                   c.urls = <<>> /\ c.responses = <<>>
            /\ c.ret.kind = "no_content" =>
                   /\ c.req.variant = "search_web"
                   /\ c.responses # <<>> /\ AllFetchesEnded(c)
                   /\ ~SomePageHasText(c)

\* C26 witness: search_web fetched the pages of two hits after the fallback
\* key answered 200, and returned its nothing-extracted failure.
C26_Witness ==
    \E p \in Procs :
        /\ call[p].pc = "done" /\ call[p].ret.kind = "no_content"
        /\ call[p].slots = 1 /\ Len(call[p].posts) = 2
        /\ Len(call[p].responses) = 2

\* C27: the provider call makes at most one request per key of the chain (at
\* most two), in chain order; while it goes on no key has answered 200 or
\* given a final answer, and once a response is final no request follows it.
C27_BoundedProviderCall ==
    \A p \in Procs :
        LET c == call[p]
        IN  Started(c) =>
                /\ Len(c.keys_in_order) <= 2
                /\ Len(c.posts) <= Len(c.keys_in_order)
                /\ \A i \in 1..Len(c.posts) : c.posts[i].key = c.keys_in_order[i]
                /\ \A i, j \in 1..Len(c.posts) : i # j => c.posts[i].key # c.posts[j].key
                /\ c.pc = "post" =>
                       /\ c.idx = Len(c.posts) + 1
                       /\ c.resp.kind = "none"
                       /\ c.r.kind = "response" =>
                              c.r.status_code \in RetryableWithFallback
                /\ c.resp.kind = "response" =>
                       /\ c.pc \in {"fetch", "done"}
                       /\ c.resp = c.r
                       /\ c.resp.key = c.posts[Len(c.posts)].key

\* C27 witness: both keys of the chain were tried, the second answered 200
\* with hits, and the invocation is fetching pages.
C27_Witness ==
    \E p \in Procs :
        /\ call[p].pc = "fetch" /\ Len(call[p].keys_in_order) = 2
        /\ Len(call[p].posts) = 2
        /\ call[p].posts[1].key = "kA" /\ call[p].posts[2].key = "kB"
        /\ call[p].r.status_code = 200

\* C28: an invocation consumes at most one rate-limit slot, and none when its
\* credential chain is empty.
C28_SlotsPerInvocation ==
    \A p \in Procs :
        LET c == call[p]
        IN  /\ c.slots <= 1
            /\ (Started(c) /\ ExpectedChain(c.req, config) = <<>>) => c.slots = 0

\* C29: an invocation calls the analytics recorder at most once, and the count
\* it reports is the effective count, an integer within 1..20.
C29_RecordedCount ==
    \A p \in Procs :
        /\ Len(call[p].recorded) <= 1
        /\ \A i \in 1..Len(call[p].recorded) :
               /\ call[p].recorded[i] # None
               /\ call[p].recorded[i][1] \in 1..20

\* C30: in every returned aggregate the count of successful extractions in
\* the summary is the number of items with non-empty cleaned text and the
\* number of blocks of the joined text, none of which has an empty body
\* (every hit has a link here).
C30_CountsAgree ==
    \A p \in Procs :
        LET c == call[p]
        IN  (c.pc = "done" /\ c.ret.kind \in {"ok", "report"}
             /\ \A i \in 1..Len(c.results) : HasLink(c.results[i])) =>
                /\ c.ret.summary.a = Len(c.ret.chunks)
                /\ \A m \in 1..Len(c.ret.chunks) : c.ret.chunks[m].body # <<>>
                /\ c.ret.kind = "report" =>
                       c.ret.summary.a
                           = Cardinality({i \in 1..Len(c.ret.results) :
                                             c.ret.results[i].cleaned_text # <<>>})
                /\ c.ret.kind = "ok" => c.ret.summary.a = Cardinality(Yielding(c))

====
